---- MODULE Spec2Model ----
(***************************************************************************)
(* A model of lib/inverter.py, lib/statustypes.py and the monitor of        *)
(* SolarRiver_get.py in six parts, each with its specification:            *)
(*  - Spec / FairSpec: the KeepAliveInverter session: one user thread      *)
(*    calling send / receive / request / stop_keep_alive /                 *)
(*    start_keep_alive / disconnect, the keep-alive worker threads, the    *)
(*    connected socket with its peer, and a discrete clock against which   *)
(*    the worker's wait(timeout=keep_alive_period) runs;                   *)
(*  - StatusSpec: Inverter.status / status_format and the format cache;    *)
(*  - FinderSpec: InverterFinder.open_with_retries / open / find_inverter; *)
(*  - CodecSpec: construct_message / calculate_checksum / read_message;    *)
(*  - DecodeSpec: the status types of lib/statustypes.py and the loop of   *)
(*    Inverter.status that applies them to a format and a payload;         *)
(*  - MonitorSpec / FairMonitorSpec: monitor and Start of                  *)
(*    SolarRiver_get.py.                                                   *)
(* The variables of the parts a specification does not run stay parked.    *)
(***************************************************************************)
EXTENDS Naturals, Integers, Sequences, FiniteSets, TLC

(* ------------------------------ bounds --------------------------------- *)

\* keep_alive_period, in clock ticks
KeepAliveTicks == 2
\* thread slots available to Thread(target=self._ka_runner)
MaxWorkers == 2
\* frames the peer may have in flight towards the session
MaxInq == 1
\* the ghost count of frames dropped by one request() saturates here
MaxDrop == 2
\* the ghost counts of format and status requests sent saturate here
MaxRequests == 3
\* the largest retries argument given to open_with_retries
MaxRetries == 3
\* the largest advertisements argument given to find_inverter
MaxAdverts == 3
\* codec inputs: payloads of up to MaxPayloadLen bytes, and one payload of
\* LongLen bytes
MaxPayloadLen == 2
LongLen == 260

Workers == 1..MaxWorkers

(* ------------------------------ frames --------------------------------- *)

\* request identifiers used by the session
StatusRequestId == <<1, 2, 2>>
KeepAliveId == <<1, 9, 2>>
\* expected response prefixes: of a status reply, and the default b""
StatusReplyPrefix == <<1, 130>>
NoPrefix == <<>>

\* what read_message returns: (identifier, payload)
Frame(i, p) == [id |-> i, payload |-> p]
\* read_message at end of stream: every read() yields b"", the size is 0
EofFrame == Frame(<<>>, <<>>)
NoFrame == Frame(<<255>>, <<>>)

\* the frames the peer sends in this model: two status replies and a frame
\* that is none
PeerFrames ==
    { Frame(<<1, 130, 0>>, <<>>), Frame(<<1, 130, 1>>, <<>>),
      Frame(<<1, 127, 0>>, <<>>) }

\* bytes.startswith
StartsWith(s, p) == Len(p) <= Len(s) /\ SubSeq(s, 1, Len(p)) = p

\* the (identifier, expected_response_id) pairs the user passes to request()
RequestArgs ==
    { <<StatusRequestId, StatusReplyPrefix>>,
      <<StatusRequestId, NoPrefix>> }

(* ------------------------------- state --------------------------------- *)

VARIABLES
    sock,        \* "open", "shut" (after shutdown), "closed" (sock_file and sock closed)
    peer,        \* "up", "closed" (the inverter closed the connection), "reset" (a write met the broken pipe)
    inq,         \* frames sent by the peer and not yet read
    rtimedout,   \* a read on sock_file has timed out
    lastOut,     \* [by, id] of the last frame flushed to the socket
    ka_thread,   \* self._ka_thread: 0 is None, else the worker's slot
    ka_stop,     \* self._ka_stop (the Event's flag)
    wpc,         \* position of each worker thread
    timer,       \* ticks each worker has spent in _ka_stop.wait
    upc,         \* position of the user thread
    uop,         \* the method the user called last
    uio,         \* within it: "send", "recv" or "none"
    uid,         \* identifier argument of send / request
    uexp,        \* expected_response_id of request
    umsg,        \* the frame the user's last receive returned
    ures,        \* how the user's last call ended
    uwrites,     \* history: frames written by the user's current call
    ndrop,       \* history: frames dropped by the current request
    ufirst,      \* history: first frame read by the current call that matches uexp
    ueof,        \* history: the current call's read met end of stream
    torn,        \* history: a frame was begun inside another frame
    ugap,        \* history: ticks since the user's last socket operation ended
    closedg,     \* history: disconnect() returned, or a user request failed on I/O
    uerrno,      \* history: errno of the OSError of disconnect()'s sock.shutdown (0: none)
    ufailed,     \* history: a user send / receive / request raised, and since then none was called and no worker started
    status,      \* Inverter.status / status_format: the fields of StatusParked
    finder,      \* InverterFinder: the fields of FinderParked
    codec,       \* the frame codec: the fields of CodecParked
    decode,      \* the status types: the fields of DecodeParked
    monitor      \* the monitor loop: the fields of MonitorParked

sockvars == <<sock, peer, inq, rtimedout, lastOut>>
kavars == <<ka_thread, ka_stop, wpc, timer>>
uservars == <<upc, uop, ures, uio, uid, uexp, umsg>>
histvars == <<uwrites, ndrop, ufirst, ueof, torn, ugap, closedg>>
sessionvars == <<sockvars, kavars, uservars, histvars, uerrno, ufailed>>
vars == <<sessionvars, status, finder, codec, decode, monitor>>

\* the parts a step of the session leaves alone
OffSession == UNCHANGED <<status, finder, codec, decode, monitor>>
\* the methods that do socket I/O for the user
IOOps == {"send", "receive", "request"}
\* the step ends a user send / receive / request with an exception
IOFails == uop \in IOOps /\ upc # "idle" /\ upc' = "idle" /\ ures' # "ok"
Untouched ==
    /\ OffSession /\ UNCHANGED uerrno
    /\ ufailed' = (ufailed \/ IOFails)

WorkerPcs == {"none", "wait", "ka_flush", "ka_reading", "exited", "crashed"}
UserPcs == {"idle", "stop", "join", "flush", "reading", "start", "shutdown", "close"}
UserOps == {"none", "send", "receive", "request", "stop_keep_alive",
            "start_keep_alive", "disconnect"}
Results == {"none", "ok", "BrokenPipeError", "timeout", "OSError", "ValueError",
            "RuntimeError"}

TypeOK ==
    /\ sock \in {"open", "shut", "closed"}
    /\ peer \in {"up", "closed", "reset"}
    /\ inq \in Seq(PeerFrames) /\ Len(inq) <= MaxInq
    /\ rtimedout \in BOOLEAN
    /\ ka_thread \in 0..MaxWorkers
    /\ ka_stop \in BOOLEAN
    /\ wpc \in [Workers -> WorkerPcs]
    /\ timer \in [Workers -> 0..KeepAliveTicks]
    /\ upc \in UserPcs
    /\ uop \in UserOps
    /\ uio \in {"none", "send", "recv"}
    /\ ures \in Results
    /\ uwrites \in 0..2
    /\ ndrop \in 0..MaxDrop
    /\ ugap \in 0..KeepAliveTicks
    /\ ueof \in BOOLEAN /\ torn \in BOOLEAN /\ closedg \in BOOLEAN
    /\ uerrno \in {0, 9, 104, 107, 10038}
    /\ ufailed \in BOOLEAN

(* --------------------------- thread helpers ---------------------------- *)

Alive(w) == wpc[w] \in {"wait", "ka_flush", "ka_reading"}
Finished(w) == wpc[w] \in {"exited", "crashed"}
\* a thread is inside a socket write / inside a socket read
UserWriting == upc = "flush"
UserReading == upc = "reading"
WorkerWriting(w) == wpc[w] = "ka_flush"
WorkerReading(w) == wpc[w] = "ka_reading"
UserInSocket == UserWriting \/ UserReading
WorkerInSocket(w) == WorkerWriting(w) \/ WorkerReading(w)

\* the user is inside one of its send() / receive() calls
InUserSocketOp ==
    /\ uop \in {"send", "receive", "request"}
    /\ upc \in {"join", "flush", "reading", "start"}

FreeSlots == {w \in Workers : wpc[w] = "none"}
Min(S) == CHOOSE x \in S : \A y \in S : x <= y
Inc(n, cap) == IF n < cap THEN n + 1 ELSE cap

\* Fault variant of Spawned: the wait goes on from where the clock stood
\* instead of starting afresh.
SpawnedKeepingTimer(w) ==
    /\ wpc' = [wpc EXCEPT ![w] = "wait"]
    /\ timer' = timer

\* Thread(target=self._ka_runner).start(): the worker enters its wait
Spawned(w) ==
    /\ wpc' = [wpc EXCEPT ![w] = "wait"]
    /\ timer' = [timer EXCEPT ![w] = 0]

\* a worker thread ends; a thread nobody references any more leaves no trace
Ended(w, how) ==
    wpc' = [wpc EXCEPT ![w] = IF ka_thread = w THEN how ELSE "none"]

SessionInit ==
    /\ sock = "open" /\ peer = "up" /\ inq = <<>> /\ rtimedout = FALSE
    /\ lastOut = [by |-> "none", id |-> <<>>]
    /\ ka_thread = 1 /\ ka_stop = FALSE
    /\ wpc = [w \in Workers |-> IF w = 1 THEN "wait" ELSE "none"]
    /\ timer = [w \in Workers |-> 0]
    /\ upc = "idle" /\ uop = "none" /\ uio = "none"
    /\ uid = <<>> /\ uexp = <<>> /\ umsg = NoFrame /\ ures = "none"
    /\ uwrites = 0 /\ ndrop = 0 /\ ufirst = NoFrame /\ ueof = FALSE
    /\ torn = FALSE /\ ugap = 0 /\ closedg = FALSE
    /\ uerrno = 0 /\ ufailed = FALSE

\* no status() / status_format() call made
StatusParked ==
    status = [cache   |-> <<>>,     \* self._status_format: <<>> is None, <<f>> holds f
              dev     |-> <<>>,     \* the format the inverter answers a format request with
              op      |-> "none",   \* the method called last: "status" or "status_format"
              pc      |-> "idle",   \* position in it
              res     |-> "none",   \* how the last call ended
              fetched |-> FALSE,    \* history: a format request has been answered
              nfmt    |-> 0,        \* history: format requests sent
              nstat   |-> 0]        \* history: status requests sent

\* an InverterFinder just constructed
FinderParked ==
    finder = [listen   |-> "None",  \* self.listen_sock: "None" or "listening"
              op       |-> "none",  \* the method called last
              pc       |-> "idle",  \* position in it
              res      |-> "none",  \* how the last call ended
              retries  |-> 0,       \* open_with_retries: the retries argument
              tries    |-> 0,       \* open_with_retries: the local tries
              errno    |-> 0,       \* errno of the OSError the last open() raised (0: none)
              opens    |-> 0,       \* history: open() calls of the current open_with_retries
              sleeps   |-> 0,       \* history: sleep(period) calls of it
              adv      |-> 0,       \* find_inverter: the advertisements argument
              i        |-> 0,       \* find_inverter: passes of the loop begun
              sent     |-> 0,       \* history: advertisements sent by the current find_inverter
              timeouts |-> 0,       \* history: accept attempts of it that timed out
              accepted |-> FALSE]   \* history: an accept of it succeeded

\* no codec call made
CodecParked ==
    codec = [pc      |-> "input",   \* "input", "built", "wire", "read"
             id      |-> <<>>,      \* identifier given to construct_message
             payload |-> <<>>,      \* payload given to construct_message
             built   |-> [kind |-> "none", bytes |-> <<>>],  \* what construct_message returned or raised
             stream  |-> <<>>,      \* the bytes of the stream read_message is applied to
             out     |-> [kind |-> "none", id |-> <<>>, payload |-> <<>>],  \* what read_message returned or raised
             rest    |-> <<>>]      \* the bytes left in the stream after read_message

\* no status payload decoded
DecodeParked ==
    decode = [pc            |-> "input",  \* "input", "values", "status"
              format        |-> <<>>,     \* the status format
              payload       |-> <<>>,     \* the status payload
              values        |-> <<>>,     \* what get_value of each registered type returned or raised
              res           |-> "none",   \* how the loop of status() ended
              status_values |-> <<>>]     \* the dictionary status() returned

\* the monitor about to call Start()
MonitorParked ==
    monitor = [pc     |-> "loop",   \* position in monitor / Start
               listen |-> "None",   \* finder.listen_sock: "None" or "listening"
               sock   |-> "none",   \* the session's socket: "none" (no session), "open", "closed"
               ka     |-> FALSE,    \* the session's keep-alive worker runs
               raised |-> "none",   \* the exception Start() is unwinding with, or what raised it
               last   |-> "none",   \* the exception that ended the last Start()
               polls  |-> 0,        \* history: status() calls of the current session
               starts |-> 0]        \* history: Start() calls

Init == SessionInit /\ StatusParked /\ FinderParked /\ CodecParked /\ DecodeParked /\ MonitorParked

(* ------------------------------ the clock ------------------------------ *)

\* One tick of time: every worker inside _ka_stop.wait(timeout) whose event is
\* not set gets closer to its timeout; the user's idle time grows outside
\* send() / receive().
Tick ==
    /\ \/ \E w \in Workers : wpc[w] = "wait" /\ ~ka_stop /\ timer[w] < KeepAliveTicks
       \/ ~InUserSocketOp /\ ugap < KeepAliveTicks
    /\ timer' = [w \in Workers |->
                    IF wpc[w] = "wait" /\ ~ka_stop
                    THEN Inc(timer[w], KeepAliveTicks) ELSE timer[w]]
    /\ ugap' = IF InUserSocketOp THEN ugap ELSE Inc(ugap, KeepAliveTicks)
    /\ UNCHANGED <<sockvars, ka_thread, ka_stop, wpc, uservars>>
    /\ UNCHANGED <<uwrites, ndrop, ufirst, ueof, torn, closedg>>
    /\ Untouched

(* ------------------------------ the peer ------------------------------- *)

\* the inverter sends a frame
PeerSend ==
    /\ peer = "up" /\ sock # "closed" /\ Len(inq) < MaxInq
    /\ \E f \in PeerFrames : inq' = Append(inq, f)
    /\ UNCHANGED <<sock, peer, rtimedout, lastOut, kavars, uservars, histvars>>
    /\ Untouched

\* the inverter closes the connection
PeerClose ==
    /\ peer = "up"
    /\ peer' = "closed"
    /\ UNCHANGED <<sock, inq, rtimedout, lastOut, kavars, uservars, histvars>>
    /\ Untouched

(* ------------------------- the keep-alive worker ----------------------- *)

\* _ka_runner: wait() returned True
WStopped(w) ==
    /\ wpc[w] = "wait" /\ ka_stop
    /\ Ended(w, "exited")
    /\ UNCHANGED <<sockvars, ka_thread, ka_stop, timer, uservars, histvars>>
    /\ Untouched

\* the worker dies of an exception raised in keep_alive()
WorkerRaises(w) == Ended(w, "crashed")

\* Fault variant of WTimeout: the runner tests "if not stopped" and returns
\* when its wait times out.
WTimeoutReturns(w) ==
    /\ wpc[w] = "wait" /\ ~ka_stop /\ timer[w] = KeepAliveTicks
    /\ Ended(w, "exited")
    /\ UNCHANGED <<sockvars, ka_thread, ka_stop, timer, uservars, histvars>>
    /\ Untouched

\* _ka_runner: wait() timed out; keep_alive() starts with super().send,
\* which writes the frame into sock_file
WTimeout(w) ==
    /\ wpc[w] = "wait" /\ ~ka_stop /\ timer[w] = KeepAliveTicks
    /\ IF sock = "closed"
       THEN WorkerRaises(w) /\ UNCHANGED torn
       ELSE /\ wpc' = [wpc EXCEPT ![w] = "ka_flush"]
            /\ torn' = (torn \/ UserWriting \/ \E v \in Workers \ {w} : WorkerWriting(v))
    /\ UNCHANGED <<sockvars, ka_thread, ka_stop, timer, uservars>>
    /\ UNCHANGED <<uwrites, ndrop, ufirst, ueof, ugap, closedg>>
    /\ Untouched

\* keep_alive: the flush of the keep-alive frame ends, then super().receive()
\* starts reading
KaFlush(w) ==
    /\ wpc[w] = "ka_flush"
    /\ \/ /\ sock = "open" /\ peer # "reset"
          /\ lastOut' = [by |-> "worker", id |-> KeepAliveId]
          /\ IF rtimedout
             THEN WorkerRaises(w)
             ELSE wpc' = [wpc EXCEPT ![w] = "ka_reading"]
          /\ UNCHANGED peer
       \/ /\ peer # "up" \/ sock # "open"
          /\ peer' = IF peer = "up" THEN peer ELSE "reset"
          /\ WorkerRaises(w)
          /\ UNCHANGED lastOut
    /\ UNCHANGED <<sock, inq, rtimedout, ka_thread, ka_stop, timer, uservars>>
    /\ UNCHANGED <<uwrites, ndrop, ufirst, ueof, torn, ugap, closedg>>
    /\ Untouched

\* keep_alive: read_message returns one frame (or the empty frame at end of
\* stream), which is discarded, and the runner goes back to wait; or the read
\* times out
KaRead(w) ==
    /\ wpc[w] = "ka_reading"
    /\ \/ /\ inq # <<>>
          /\ inq' = Tail(inq)
          /\ Spawned(w)
          /\ UNCHANGED rtimedout
       \/ /\ inq = <<>> /\ (peer # "up" \/ sock # "open")
          /\ Spawned(w)
          /\ UNCHANGED <<inq, rtimedout>>
       \/ /\ inq = <<>> /\ peer = "up" /\ sock = "open"
          /\ rtimedout' = TRUE
          /\ WorkerRaises(w)
          /\ UNCHANGED <<inq, timer>>
    /\ UNCHANGED <<sock, peer, lastOut, ka_thread, ka_stop, uservars>>
    /\ UNCHANGED <<uwrites, ndrop, ufirst, ueof, torn, ugap, closedg>>
    /\ Untouched

Worker(w) == WStopped(w) \/ WTimeout(w) \/ KaFlush(w) \/ KaRead(w)

(* --------------------------- the user thread --------------------------- *)

IOErrors == {"BrokenPipeError", "timeout", "OSError"}

\* the arguments and local variables of the user's current call
locals == <<uio, uid, uexp, umsg, uwrites, ndrop, ufirst, ueof>>

\* the user's call is over: its frame is gone
CallEnds ==
    /\ upc' = "idle"
    /\ uio' = "none" /\ uid' = <<>> /\ uexp' = <<>> /\ umsg' = NoFrame
    /\ uwrites' = 0 /\ ndrop' = 0 /\ ufirst' = NoFrame /\ ueof' = FALSE

\* the user's call returns normally
Returns ==
    /\ CallEnds
    /\ ures' = "ok"

\* the user's call raises
Raises(err) ==
    /\ CallEnds
    /\ ures' = err
    /\ closedg' = (closedg \/ (uop = "request" /\ err \in IOErrors))

\* the user's call goes on at position pc
Goto(pc) ==
    /\ upc' = pc
    /\ UNCHANGED <<ures, closedg>>

\* a call by the user thread
Call(op, io, id, exp) ==
    /\ upc = "idle"
    /\ upc' = IF op = "start_keep_alive" THEN "start" ELSE "stop"
    /\ uop' = op /\ uio' = io /\ uid' = id /\ uexp' = exp
    /\ ures' = "none"
    /\ UNCHANGED <<sockvars, kavars, umsg, uwrites, ndrop, ufirst, ueof>>
    /\ UNCHANGED <<torn, ugap, closedg>>
    /\ uerrno' = 0 /\ ufailed' = (ufailed /\ op \notin IOOps) /\ OffSession

USendCall == Call("send", "send", StatusRequestId, NoPrefix)
UReceiveCall == Call("receive", "recv", <<>>, NoPrefix)
URequestCall == \E a \in RequestArgs : Call("request", "send", a[1], a[2])
UStopCall == Call("stop_keep_alive", "none", <<>>, NoPrefix)
UStartCall == Call("start_keep_alive", "none", <<>>, NoPrefix)
\* Fault variant of UDisconnectCall: disconnect() goes to the base class
\* without stop_keep_alive().
UDisconnectWithoutStop ==
    /\ upc = "idle"
    /\ upc' = "shutdown" /\ uop' = "disconnect" /\ ures' = "none"
    /\ UNCHANGED <<sockvars, kavars, locals, torn, ugap, closedg>>
    /\ uerrno' = 0 /\ UNCHANGED ufailed /\ OffSession

UDisconnectCall == Call("disconnect", "none", <<>>, NoPrefix)

\* What follows stop_keep_alive() in the calling method: the return of a bare
\* stop_keep_alive(), the shutdown of disconnect(), the write of Inverter.send
\* or the read of Inverter.receive
AfterStop ==
    CASE uop = "stop_keep_alive" ->
            Returns /\ UNCHANGED <<torn, ugap, closedg>>
      [] uop = "disconnect" ->
            Goto("shutdown") /\ UNCHANGED <<locals, torn, ugap>>
      [] uop \in {"send", "receive", "request"} /\ uio = "send" ->
            IF sock = "closed"
            THEN Raises("ValueError") /\ ugap' = 0 /\ UNCHANGED torn
            ELSE /\ Goto("flush")
                 /\ torn' = (torn \/ \E w \in Workers : WorkerWriting(w))
                 /\ UNCHANGED <<locals, ugap>>
      [] uop \in {"send", "receive", "request"} /\ uio = "recv" ->
            IF sock = "closed"
            THEN Raises("ValueError") /\ ugap' = 0 /\ UNCHANGED torn
            ELSE IF rtimedout
            THEN Raises("OSError") /\ ugap' = 0 /\ UNCHANGED torn
            ELSE Goto("reading") /\ UNCHANGED <<locals, torn, ugap>>

\* Fault variant of UStop: stop_keep_alive returns at once, worker or not.
UStopReturnsAtOnce ==
    /\ upc = "stop"
    /\ AfterStop /\ UNCHANGED ka_stop
    /\ UNCHANGED <<sockvars, ka_thread, wpc, timer, uop>>
    /\ Untouched

\* stop_keep_alive: the guard, and the event set
UStop ==
    /\ upc = "stop"
    /\ IF ka_thread = 0
       THEN AfterStop /\ UNCHANGED ka_stop
       ELSE /\ ka_stop' = TRUE
            /\ Goto("join")
            /\ UNCHANGED <<locals, torn, ugap>>
    /\ UNCHANGED <<sockvars, ka_thread, wpc, timer, uop>>
    /\ Untouched

\* Fault variant of UJoin: stop_keep_alive sets the event and drops the
\* handle without join().
UJoinWithoutWaiting ==
    /\ upc = "join"
    /\ wpc' = [wpc EXCEPT ![ka_thread] = IF Finished(ka_thread) THEN "none" ELSE @]
    /\ ka_thread' = 0
    /\ AfterStop
    /\ UNCHANGED <<sockvars, ka_stop, timer, uop>>
    /\ Untouched

\* stop_keep_alive: join() returns once the worker thread has ended, and the
\* handle is dropped
UJoin ==
    /\ upc = "join"
    /\ Finished(ka_thread)
    /\ wpc' = [wpc EXCEPT ![ka_thread] = "none"]
    /\ ka_thread' = 0
    /\ AfterStop
    /\ UNCHANGED <<sockvars, ka_stop, timer, uop>>
    /\ Untouched

\* Inverter.send: the flush of the frame ends, or raises
UFlush ==
    /\ upc = "flush"
    /\ \/ /\ sock = "open" /\ peer # "reset"
          /\ lastOut' = [by |-> "user", id |-> uid]
          /\ uwrites' = Inc(uwrites, 2)
          /\ Goto("start")
          /\ UNCHANGED <<peer, ugap, uio, uid, uexp, umsg, ndrop, ufirst, ueof>>
       \/ /\ peer # "up" \/ sock # "open"
          /\ peer' = IF peer = "up" THEN peer ELSE "reset"
          /\ Raises("BrokenPipeError") /\ ugap' = 0
          /\ UNCHANGED lastOut
    /\ UNCHANGED <<sock, inq, rtimedout, kavars, uop, torn>>
    /\ Untouched

\* the user's read_message returned frame f
Received(f) ==
    /\ umsg' = f
    /\ ufirst' = IF ufirst = NoFrame /\ StartsWith(f.id, uexp) THEN f ELSE ufirst
    /\ Goto("start")
    /\ UNCHANGED <<ugap, uio, uid, uexp, uwrites, ndrop>>

\* Inverter.receive: read_message returns the next frame, returns the empty
\* frame at end of stream, or the read times out
URead ==
    /\ upc = "reading"
    /\ \/ /\ inq # <<>>
          /\ inq' = Tail(inq)
          /\ Received(Head(inq))
          /\ UNCHANGED <<rtimedout, ueof>>
       \/ /\ inq = <<>> /\ (peer # "up" \/ sock # "open")
          /\ Received(EofFrame)
          /\ ueof' = TRUE
          /\ UNCHANGED <<inq, rtimedout>>
       \/ /\ inq = <<>> /\ peer = "up" /\ sock = "open"
          /\ rtimedout' = TRUE
          /\ Raises("timeout") /\ ugap' = 0
          /\ UNCHANGED inq
    /\ UNCHANGED <<sock, peer, lastOut, kavars, uop, torn>>
    /\ Untouched

\* Fault variant of ResponseMismatch: request returns whatever frame comes
\* first.
ResponseMismatchIgnored == FALSE

\* request: the loop condition on the frame just received
ResponseMismatch == ~StartsWith(umsg.id, uexp)

\* What follows start_keep_alive() in the calling method: the return of
\* send / receive / start_keep_alive, or the next step of request
AfterStart ==
    CASE uop = "start_keep_alive" ->
            Returns /\ UNCHANGED <<ugap, closedg>>
      [] uop \in {"send", "receive"} ->
            Returns /\ ugap' = 0 /\ UNCHANGED closedg
      [] uop = "request" /\ uio = "send" ->
            /\ Goto("stop") /\ uio' = "recv" /\ ugap' = 0
            /\ UNCHANGED <<uid, uexp, umsg, uwrites, ndrop, ufirst, ueof>>
      [] uop = "request" /\ uio = "recv" ->
            IF ResponseMismatch
            THEN /\ Goto("stop") /\ ndrop' = Inc(ndrop, MaxDrop) /\ ugap' = 0
                 /\ UNCHANGED <<uio, uid, uexp, umsg, uwrites, ufirst, ueof>>
            ELSE Returns /\ ugap' = 0 /\ UNCHANGED closedg

\* Fault variant of UStart: start_keep_alive without its test of the handle.
UStartUnguarded ==
    /\ upc = "start"
    /\ FreeSlots # {}
    /\ ka_stop' = FALSE
    /\ ka_thread' = Min(FreeSlots)
    /\ Spawned(Min(FreeSlots))
    /\ AfterStart
    /\ UNCHANGED <<sockvars, uop, torn>>
    /\ OffSession /\ UNCHANGED uerrno
    /\ ufailed' = FALSE

\* start_keep_alive
UStart ==
    /\ upc = "start"
    /\ IF ka_thread # 0
       THEN /\ Raises("RuntimeError")
            /\ UNCHANGED <<kavars, ugap>>
       ELSE /\ FreeSlots # {}
            /\ ka_stop' = FALSE
            /\ ka_thread' = Min(FreeSlots)
            /\ Spawned(Min(FreeSlots))
            /\ AfterStart
    /\ UNCHANGED <<sockvars, uop, torn>>
    /\ OffSession /\ UNCHANGED uerrno
    /\ ufailed' = (ka_thread # 0 /\ (ufailed \/ IOFails))

\* errno of the OSError that sock.shutdown raises (0: none)
ShutdownErrnos == IF sock = "open" THEN {0, 107, 104} ELSE {9, 10038}
\* Fault variant of AlreadyClosedErrnos: errno 107 is left out of the test.
AlreadyClosedErrnosWithout107 == {9, 10038}

\* the errnos disconnect() swallows
AlreadyClosedErrnos == {107, 9, 10038}

\* Inverter.disconnect: sock.shutdown(SHUT_RDWR)
UShutdown ==
    /\ upc = "shutdown"
    /\ \E e \in ShutdownErrnos :
          /\ uerrno' = e
          /\ IF e = 0
             THEN sock' = "shut" /\ Goto("close") /\ UNCHANGED locals
             ELSE IF e \in AlreadyClosedErrnos
             THEN Goto("close") /\ UNCHANGED <<sock, locals>>
             ELSE Raises("OSError") /\ UNCHANGED sock
    /\ UNCHANGED <<peer, inq, rtimedout, lastOut, kavars, uop, torn, ugap>>
    /\ UNCHANGED ufailed /\ OffSession

\* Inverter.disconnect: sock_file.close(); sock.close()
UClose ==
    /\ upc = "close"
    /\ sock' = "closed"
    /\ Returns
    /\ closedg' = TRUE
    /\ UNCHANGED <<peer, inq, rtimedout, lastOut, kavars, uop, torn, ugap>>
    /\ uerrno' = 0 /\ UNCHANGED ufailed /\ OffSession

(* --------------------------- specification ----------------------------- *)

Next ==
    \/ Tick
    \/ PeerSend
    \/ PeerClose
    \/ \E w \in Workers : WStopped(w)
    \/ \E w \in Workers : WTimeout(w)
    \/ \E w \in Workers : KaFlush(w)
    \/ \E w \in Workers : KaRead(w)
    \/ USendCall
    \/ UReceiveCall
    \/ URequestCall
    \/ UStopCall
    \/ UStartCall
    \/ UDisconnectCall
    \/ UStop
    \/ UJoin
    \/ UFlush
    \/ URead
    \/ UStart
    \/ UShutdown
    \/ UClose

Spec == Init /\ [][Next]_vars

\* Time passes, and a worker thread that can take a step is scheduled; the
\* user thread and the peer are under no obligation.
Fairness ==
    /\ WF_vars(Tick)
    /\ \A w \in Workers : WF_vars(Worker(w))

FairSpec == Spec /\ Fairness

(* ----------------- Inverter.status / status_format -------------------- *)

\* the status formats the inverter of this model may answer with: none, one
\* and two type codes
Formats == {<<>>, <<0>>, <<0, 1>>}

\* "not self._status_format": None, or bytes of length 0
Falsy(c) == c = <<>> \/ c[1] = <<>>

OffStatus == UNCHANGED <<sessionvars, finder, codec, decode, monitor>>

StatusInit ==
    /\ SessionInit /\ FinderParked /\ CodecParked /\ DecodeParked /\ MonitorParked
    /\ \E f \in Formats :
          status = [cache |-> <<>>, dev |-> f, op |-> "none", pc |-> "idle",
                    res |-> "none", fetched |-> FALSE, nfmt |-> 0, nstat |-> 0]

\* a request of status() / status_format() raises (send or receive failed)
SRaises == status' = [status EXCEPT !.pc = "idle", !.res = "error"]

\* status(): the test of the cache
SStatusCall ==
    /\ status.pc = "idle"
    /\ status' = [status EXCEPT
                     !.op = "status", !.res = "none",
                     !.pc = IF Falsy(status.cache) THEN "fmt_send" ELSE "st_send"]
    /\ OffStatus

\* status_format() called by the user
SFormatCall ==
    /\ status.pc = "idle"
    /\ status' = [status EXCEPT
                     !.op = "status_format", !.res = "none", !.pc = "fmt_send"]
    /\ OffStatus

\* status_format: request() sends 01 00 02
SFmtSend ==
    /\ status.pc = "fmt_send"
    /\ \/ status' = [status EXCEPT
                        !.pc = "fmt_recv", !.nfmt = Inc(status.nfmt, MaxRequests)]
       \/ SRaises
    /\ OffStatus

\* status_format: request() returns the 01 80 reply and status_format returns
\* its payload, to the user or to status(), which stores it
SFmtReply ==
    /\ status.pc = "fmt_recv"
    /\ \/ IF status.op = "status"
          THEN status' = [status EXCEPT
                            !.fetched = TRUE, !.cache = <<status.dev>>,
                            !.pc = "st_send"]
          ELSE status' = [status EXCEPT
                            !.fetched = TRUE, !.pc = "idle", !.res = "ok"]
       \/ SRaises
    /\ OffStatus

\* status: request() sends 01 02 02
SStatSend ==
    /\ status.pc = "st_send"
    /\ \/ status' = [status EXCEPT
                        !.pc = "st_recv", !.nstat = Inc(status.nstat, MaxRequests)]
       \/ SRaises
    /\ OffStatus

\* status: request() returns the 01 82 reply and status returns its values
SStatReply ==
    /\ status.pc = "st_recv"
    /\ \/ status' = [status EXCEPT !.pc = "idle", !.res = "ok"]
       \/ SRaises
    /\ OffStatus

StatusNext ==
    \/ SStatusCall
    \/ SFormatCall
    \/ SFmtSend
    \/ SFmtReply
    \/ SStatSend
    \/ SStatReply

StatusSpec == StatusInit /\ [][StatusNext]_vars

(* --------------------------- InverterFinder ---------------------------- *)

OffFinder == UNCHANGED <<sessionvars, status, codec, decode, monitor>>

FinderInit ==
    SessionInit /\ StatusParked /\ CodecParked /\ DecodeParked /\ MonitorParked /\ FinderParked

\* errno of the OSError an open() raises from socket() or bind() / listen()
\* (0: none): address in use on Linux and on Windows, and permission denied
OpenErrnos == {0, 98, 10048, 13}

\* Fault variant of PortInUse: every errno is taken for "port in use".
PortInUseAnyErrno(e) == TRUE

\* open_with_retries: the errnos it retries on
PortInUse(e) == ~(e # 98 /\ e # 10048)

\* open_with_retries(retries, period) is called
FOpenRetriesCall ==
    /\ finder.pc = "idle"
    /\ \E r \in 0..MaxRetries :
          finder' = [finder EXCEPT
                       !.op = "open_with_retries", !.pc = "open", !.res = "none",
                       !.retries = r, !.tries = 0, !.errno = 0,
                       !.opens = 0, !.sleeps = 0]
    /\ OffFinder

\* open_with_retries: one pass of the loop: open(), and the handler of its
\* OSError
FOpen ==
    /\ finder.pc = "open"
    /\ LET called == [finder EXCEPT !.opens = finder.opens + 1]
       IN  IF finder.listen # "None"
           THEN finder' = [called EXCEPT !.pc = "idle", !.res = "RuntimeError"]
           ELSE \E e \in OpenErrnos :
                  LET failed == [called EXCEPT !.errno = e, !.listen = "None"]
                  IN  IF e = 0
                      THEN finder' = [called EXCEPT
                                        !.errno = 0, !.listen = "listening",
                                        !.pc = "idle", !.res = "ok"]
                      ELSE IF ~PortInUse(e)
                      THEN finder' = [failed EXCEPT !.pc = "idle", !.res = "OSError"]
                      ELSE IF finder.tries + 1 >= finder.retries
                      THEN finder' = [failed EXCEPT
                                        !.tries = finder.tries + 1,
                                        !.pc = "idle", !.res = "OSError"]
                      ELSE finder' = [failed EXCEPT
                                        !.tries = finder.tries + 1, !.pc = "sleep"]
    /\ OffFinder

\* open_with_retries: sleep(period)
FSleep ==
    /\ finder.pc = "sleep"
    /\ finder' = [finder EXCEPT !.sleeps = finder.sleeps + 1, !.pc = "open"]
    /\ OffFinder

\* close()
FClose ==
    /\ finder.pc = "idle"
    /\ IF finder.listen = "None"
       THEN finder' = [finder EXCEPT !.op = "close", !.res = "AttributeError"]
       ELSE finder' = [finder EXCEPT !.op = "close", !.res = "ok", !.listen = "None"]
    /\ OffFinder

\* find_inverter(advertisements, interval) is called: the message is built,
\* the listener's timeout set and the broadcast socket opened
FFindCall ==
    /\ finder.pc = "idle"
    /\ \E n \in 0..MaxAdverts :
          LET called == [finder EXCEPT
                           !.op = "find_inverter", !.adv = n, !.i = 0, !.sent = 0,
                           !.timeouts = 0, !.accepted = FALSE]
          IN  IF finder.listen = "None"
              THEN finder' = [called EXCEPT !.res = "AttributeError"]
              ELSE finder' = [called EXCEPT !.pc = "loop", !.res = "none"]
    /\ OffFinder

\* Fault variant of FLoop: the loop runs range(advertisements + 1).
FLoopOnceMore ==
    /\ finder.pc = "loop"
    /\ IF finder.i < finder.adv + 1
       THEN finder' = [finder EXCEPT !.i = finder.i + 1, !.pc = "sendto"]
       ELSE finder' = [finder EXCEPT !.pc = "idle", !.res = "InverterNotFoundError"]
    /\ OffFinder

\* find_inverter: "for i in range(advertisements)" takes its next value, or
\* is exhausted and InverterNotFoundError is raised
FLoop ==
    /\ finder.pc = "loop"
    /\ IF finder.i < finder.adv
       THEN finder' = [finder EXCEPT !.i = finder.i + 1, !.pc = "sendto"]
       ELSE finder' = [finder EXCEPT !.pc = "idle", !.res = "InverterNotFoundError"]
    /\ OffFinder

\* find_inverter: bc.sendto(message, ('<broadcast>', 1300))
FSendto ==
    /\ finder.pc = "sendto"
    /\ finder' = [finder EXCEPT !.sent = finder.sent + 1, !.pc = "accept"]
    /\ OffFinder

\* Fault variant of FAccept: the accepted socket is not returned and the loop
\* goes on.
FAcceptGoesOn ==
    /\ finder.pc = "accept"
    /\ \/ finder' = [finder EXCEPT !.accepted = TRUE, !.pc = "loop"]
       \/ finder' = [finder EXCEPT !.timeouts = finder.timeouts + 1, !.pc = "loop"]
    /\ OffFinder

\* find_inverter: listen_sock.accept() returns a connection, which is
\* returned, or times out after interval
FAccept ==
    /\ finder.pc = "accept"
    /\ \/ finder' = [finder EXCEPT !.accepted = TRUE, !.pc = "idle", !.res = "ok"]
       \/ finder' = [finder EXCEPT !.timeouts = finder.timeouts + 1, !.pc = "loop"]
    /\ OffFinder

FinderNext ==
    \/ FOpenRetriesCall
    \/ FOpen
    \/ FSleep
    \/ FClose
    \/ FFindCall
    \/ FLoop
    \/ FSendto
    \/ FAccept

FinderSpec == FinderInit /\ [][FinderNext]_vars

\* The thread inside find_inverter keeps running, and accept() returns within
\* its timeout.
FinderFairness == WF_vars(FLoop \/ FSendto \/ FAccept)

FairFinderSpec == FinderSpec /\ FinderFairness

(* ---------------------------- the frame codec -------------------------- *)

OffCodec == UNCHANGED <<sessionvars, status, finder, decode, monitor>>

\* sum(message), added up by halves
RECURSIVE Sum(_)
Sum(b) ==
    IF Len(b) = 0 THEN 0
    ELSE IF Len(b) = 1 THEN b[1]
    ELSE LET h == Len(b) \div 2
         IN  Sum(SubSeq(b, 1, h)) + Sum(SubSeq(b, h + 1, Len(b)))

\* int.to_bytes(2, byteorder='big'), which raises OverflowError from 2^16 on
ToBytes2(n) ==
    IF n < 65536
    THEN [kind |-> "ok", bytes |-> <<n \div 256, n % 256>>]
    ELSE [kind |-> "OverflowError", bytes |-> <<>>]

\* int.from_bytes(b, byteorder='big')
RECURSIVE FromBytes(_)
FromBytes(b) ==
    IF b = <<>> THEN 0 ELSE 256 * FromBytes(SubSeq(b, 1, Len(b) - 1)) + b[Len(b)]

\* stream.read(n): the next n bytes, or those left before the end of the
\* stream, and what then remains of the stream
Take(b, n) == SubSeq(b, 1, IF n < Len(b) THEN n ELSE Len(b))
Drop(b, n) == SubSeq(b, (IF n < Len(b) THEN n ELSE Len(b)) + 1, Len(b))

calculate_checksum(message) == ToBytes2(Sum(message))

construct_message(identifier, payload) ==
    LET start == <<85, 170>>
        payload_size == ToBytes2(Len(payload))
        message == start \o identifier \o payload_size.bytes \o payload
        checksum == calculate_checksum(message)
    IN  IF payload_size.kind = "ok" /\ checksum.kind = "ok"
        THEN [kind |-> "ok", bytes |-> message \o checksum.bytes]
        ELSE [kind |-> "OverflowError", bytes |-> <<>>]

\* read_message with a length test that also turns down 4096
read_messageBelowBound(stream) ==
    LET s3 == Drop(stream, 7)
        payload_size == FromBytes(Take(Drop(stream, 5), 2))
    IN  IF payload_size < 0 \/ payload_size >= 4096
        THEN [kind |-> "ValueError", id |-> <<>>, payload |-> <<>>, rest |-> s3]
        ELSE [kind |-> "ok", id |-> Take(Drop(stream, 2), 3),
              payload |-> Take(s3, payload_size),
              rest |-> Drop(Drop(s3, payload_size), 2)]

\* read_message, with the bytes it leaves in the stream; its tests of the
\* start marker and of the checksum are comments in the source
read_message(stream) ==
    LET start == Take(stream, 2)
        s1 == Drop(stream, 2)
        identifier == Take(s1, 3)
        s2 == Drop(s1, 3)
        payload_size_bytes == Take(s2, 2)
        s3 == Drop(s2, 2)
        payload_size == FromBytes(payload_size_bytes)
    IN  IF payload_size < 0 \/ payload_size > 4096
        THEN [kind |-> "ValueError", id |-> <<>>, payload |-> <<>>, rest |-> s3]
        ELSE [kind |-> "ok", id |-> identifier,
              payload |-> Take(s3, payload_size),
              rest |-> Drop(Drop(s3, payload_size), 2)]

\* the inputs of this model: identifiers of three bytes, every payload of up
\* to MaxPayloadLen bytes 00 / FF, LongLen bytes FF, and 4096 bytes 00 (the
\* longest payload read_message takes)
SampleIds == {<<1, 2, 2>>, <<0, 64, 2>>}
SampleBytes == {0, 255}
SamplePayloads ==
    UNION {[1..n -> SampleBytes] : n \in 0..MaxPayloadLen}
      \cup {[i \in 1..LongLen |-> 255]}
      \cup {[i \in 1..4096 |-> 0]}
\* what follows the frame in the stream
SampleTails == {<<>>, <<85, 170>>}
\* two bytes put in the place of a start marker, of a length and of a
\* checksum; 10 00 is the length 4096 and 10 01 the length 4097
SamplePairs == {<<0, 0>>, <<85, 0>>, <<255, 255>>, <<16, 0>>, <<16, 1>>}

\* b with the two bytes at k and k + 1 replaced by pair
Patched(b, k, pair) ==
    [i \in 1..Len(b) |-> IF i = k THEN pair[1] ELSE IF i = k + 1 THEN pair[2] ELSE b[i]]

CodecInit ==
    /\ SessionInit /\ StatusParked /\ FinderParked /\ DecodeParked /\ MonitorParked
    /\ \E i \in SampleIds, p \in SamplePayloads :
          codec = [pc |-> "input", id |-> i, payload |-> p,
                   built |-> [kind |-> "none", bytes |-> <<>>],
                   stream |-> <<>>,
                   out |-> [kind |-> "none", id |-> <<>>, payload |-> <<>>],
                   rest |-> <<>>]

\* construct_message(id, payload); the frame it returns is put on a stream,
\* followed by the bytes of the next frame, if any
CConstruct ==
    /\ codec.pc = "input"
    /\ LET b == construct_message(codec.id, codec.payload)
       IN  \E t \in SampleTails :
             codec' = [codec EXCEPT
                         !.pc = "built", !.built = b,
                         !.stream = IF b.kind = "ok" THEN b.bytes \o t ELSE <<>>]
    /\ OffCodec

\* the stream reaches the reader with another start marker, another length or
\* another checksum
CDamage ==
    /\ codec.pc = "built" /\ codec.built.kind = "ok"
    /\ \E k \in {1, 6, Len(codec.built.bytes) - 1}, pair \in SamplePairs :
          /\ SubSeq(codec.stream, k, k + 1) # pair
          /\ codec' = [codec EXCEPT
                         !.pc = "wire", !.stream = Patched(codec.stream, k, pair)]
    /\ OffCodec

\* read_message(stream)
CRead ==
    /\ codec.pc \in {"built", "wire"} /\ codec.built.kind = "ok"
    /\ LET r == read_message(codec.stream)
       IN  codec' = [codec EXCEPT
                       !.pc = "read",
                       !.out = [kind |-> r.kind, id |-> r.id, payload |-> r.payload],
                       !.rest = r.rest]
    /\ OffCodec

CodecNext ==
    \/ CConstruct
    \/ CDamage
    \/ CRead

CodecSpec == CodecInit /\ [][CodecNext]_vars

(* --------------------------- the status types -------------------------- *)

OffDecode == UNCHANGED <<sessionvars, status, finder, codec, monitor>>

\* what get_value returns: None, an int, Decimal(n).scaleb(scale), a string;
\* and the KeyError it raises, with its key (None or an int)
None == [kind |-> "None", n |-> 0, scale |-> 0, s |-> ""]
IntVal(n) == [kind |-> "int", n |-> n, scale |-> 0, s |-> ""]
DecimalVal(n, scale) == [kind |-> "Decimal", n |-> n, scale |-> scale, s |-> ""]
StrVal(s) == [kind |-> "str", n |-> 0, scale |-> 0, s |-> s]
KeyError(key) == [kind |-> "KeyError", n |-> key.n, scale |-> 0, s |-> key.kind]

\* the status types, by their constructors
IntStatusType(type_ids, signed) ==
    [cls |-> "Int", type_ids |-> type_ids, signed |-> signed]
DecimalStatusType(type_ids, scale, signed) ==
    [cls |-> "Decimal", type_ids |-> type_ids, signed |-> signed, scale |-> scale]
OperationModeStatusType ==
    [cls |-> "OperationMode", type_ids |-> <<12>>, signed |-> FALSE]
OneOfStatusType(status_types_) ==
    [cls |-> "OneOf", status_types |-> status_types_]
IfPresentStatusType(type_id, presence, status_type) ==
    [cls |-> "IfPresent", type_ids |-> <<type_id>>, presence |-> presence,
     status_type |-> status_type]

\* status_format.find(type_id): the first index, from 0, or -1
find(status_format, type_id) ==
    IF \E i \in 1..Len(status_format) : status_format[i] = type_id
    THEN Min({i \in 1..Len(status_format) : status_format[i] = type_id}) - 1
    ELSE -1

\* b''.join(values)
RECURSIVE Join(_)
Join(values) ==
    IF values = <<>> THEN <<>> ELSE Head(values) \o Join(Tail(values))

\* BytesStatusType.get_value: none stands for None; payload[i*2:i*2+2] is
\* cut short, down to b'', where the payload ends
BytesGetValue(t, status_format, status_payload) ==
    LET indices == [k \in 1..Len(t.type_ids) |-> find(status_format, t.type_ids[k])]
        values == [k \in 1..Len(indices) |->
                     Take(Drop(status_payload, indices[k] * 2), 2)]
    IN  IF \E k \in 1..Len(indices) : indices[k] = -1
        THEN [none |-> TRUE, bytes |-> <<>>]
        ELSE [none |-> FALSE, bytes |-> Join(values)]

\* int.from_bytes(sequence, byteorder='big', signed=signed)
from_bytes(sequence, signed) ==
    LET n == FromBytes(sequence)
        top == 256 ^ Len(sequence)
    IN  IF signed /\ 2 * n >= top /\ sequence # <<>> THEN n - top ELSE n

\* IntStatusType.get_value
IntGetValue(t, status_format, status_payload) ==
    LET sequence == BytesGetValue(t, status_format, status_payload)
    IN  IF sequence.none THEN None
        ELSE IntVal(from_bytes(sequence.bytes, t.signed))

\* DecimalStatusType.get_value
DecimalGetValue(t, status_format, status_payload) ==
    LET int_val == IntGetValue(t, status_format, status_payload)
    IN  IF int_val = None THEN None ELSE DecimalVal(int_val.n, t.scale)

operating_modes ==
    [n \in 0..5 |-> CASE n = 0 -> "Wait"
                      [] n = 1 -> "Normal"
                      [] n = 2 -> "Fault"
                      [] n = 3 -> "Permanent fault"
                      [] n = 4 -> "Check"
                      [] n = 5 -> "PV power off"]

\* OperationModeStatusType.get_value: operating_modes[int_val], with no test
\* of int_val before the lookup
OperationModeGetValue(t, status_format, status_payload) ==
    LET int_val == IntGetValue(t, status_format, status_payload)
    IN  IF int_val.kind = "int" /\ int_val.n \in DOMAIN operating_modes
        THEN StrVal(operating_modes[int_val.n])
        ELSE KeyError(int_val)

\* a presence test by the truth of the bytes, which b'' fails
ActualPresenceTruthy(t, status_format, status_payload) ==
    LET b == BytesGetValue(t, status_format, status_payload)
    IN  ~b.none /\ b.bytes # <<>>

\* IfPresentStatusType.get_value: super().get_value(...) is not None
ActualPresence(t, status_format, status_payload) ==
    ~BytesGetValue(t, status_format, status_payload).none

\* get_value of a status type of any class; OneOfFrom is the loop of
\* OneOfStatusType.get_value from its k-th type on
RECURSIVE get_value(_, _, _)
RECURSIVE OneOfFrom(_, _, _, _)
OneOfFrom(t, k, status_format, status_payload) ==
    IF k > Len(t.status_types) THEN None
    ELSE LET val == get_value(t.status_types[k], status_format, status_payload)
         IN  IF val # None THEN val
             ELSE OneOfFrom(t, k + 1, status_format, status_payload)

get_value(t, status_format, status_payload) ==
    CASE t.cls = "Int" -> IntGetValue(t, status_format, status_payload)
      [] t.cls = "Decimal" -> DecimalGetValue(t, status_format, status_payload)
      [] t.cls = "OperationMode" ->
            OperationModeGetValue(t, status_format, status_payload)
      [] t.cls = "OneOf" -> OneOfFrom(t, 1, status_format, status_payload)
      [] t.cls = "IfPresent" ->
            IF t.presence = ActualPresence(t, status_format, status_payload)
            THEN get_value(t.status_type, status_format, status_payload)
            ELSE None

\* the registry, in its order
status_types == <<
    [name |-> "operation_mode", type |-> OperationModeStatusType],
    [name |-> "total_operation_time", type |-> IntStatusType(<<9, 10>>, FALSE)],
    [name |-> "pv1_input_power", type |-> DecimalStatusType(<<39>>, 0, FALSE)],
    [name |-> "pv2_input_power", type |-> DecimalStatusType(<<40>>, 0, FALSE)],
    [name |-> "pv1_voltage", type |-> DecimalStatusType(<<1>>, -1, FALSE)],
    [name |-> "pv2_voltage", type |-> DecimalStatusType(<<2>>, -1, FALSE)],
    [name |-> "pv1_current", type |-> DecimalStatusType(<<4>>, -1, FALSE)],
    [name |-> "pv2_current", type |-> DecimalStatusType(<<5>>, -1, FALSE)],
    [name |-> "output_power",
     type |-> OneOfStatusType(<<DecimalStatusType(<<11>>, 0, FALSE),
                                DecimalStatusType(<<52>>, 0, FALSE)>>)],
    [name |-> "energy_today", type |-> DecimalStatusType(<<17>>, -2, FALSE)],
    [name |-> "energy_total",
     type |-> OneOfStatusType(<<DecimalStatusType(<<7, 8>>, -1, FALSE),
                                DecimalStatusType(<<53, 54>>, -1, FALSE)>>)],
    [name |-> "grid_voltage",
     type |-> IfPresentStatusType(81, FALSE, DecimalStatusType(<<50>>, -1, FALSE))],
    [name |-> "grid_current",
     type |-> IfPresentStatusType(81, FALSE, DecimalStatusType(<<49>>, -1, FALSE))],
    [name |-> "grid_frequency",
     type |-> IfPresentStatusType(81, FALSE, DecimalStatusType(<<51>>, -2, FALSE))],
    [name |-> "grid_voltage_r_phase",
     type |-> IfPresentStatusType(81, TRUE, DecimalStatusType(<<50>>, -1, FALSE))],
    [name |-> "grid_current_r_phase",
     type |-> IfPresentStatusType(81, TRUE, DecimalStatusType(<<49>>, -1, FALSE))],
    [name |-> "grid_frequency_r_phase",
     type |-> IfPresentStatusType(81, TRUE, DecimalStatusType(<<51>>, -2, FALSE))],
    [name |-> "grid_voltage_s_phase", type |-> DecimalStatusType(<<82>>, -1, FALSE)],
    [name |-> "grid_current_s_phase", type |-> DecimalStatusType(<<81>>, -1, FALSE)],
    [name |-> "grid_frequency_s_phase", type |-> DecimalStatusType(<<83>>, -2, FALSE)],
    [name |-> "grid_voltage_t_phase", type |-> DecimalStatusType(<<114>>, -1, FALSE)],
    [name |-> "grid_current_t_phase", type |-> DecimalStatusType(<<113>>, -1, FALSE)],
    [name |-> "grid_frequency_t_phase", type |-> DecimalStatusType(<<115>>, -2, FALSE)],
    [name |-> "internal_temperature", type |-> DecimalStatusType(<<0>>, -1, TRUE)],
    [name |-> "heatsink_temperature", type |-> DecimalStatusType(<<47>>, -1, TRUE)] >>

FieldNames == {status_types[k].name : k \in 1..Len(status_types)}
TypeOf(name) ==
    status_types[CHOOSE k \in 1..Len(status_types) : status_types[k].name = name].type

\* Inverter.status, the loop over status_types.items() from the k-th item
\* on: a value that is not None goes into status_values, and a get_value that
\* raises ends status()
RECURSIVE status_loop(_, _, _, _)
status_loop(k, status_format, payload, status_values) ==
    IF k > Len(status_types) THEN [res |-> "ok", status_values |-> status_values]
    ELSE LET val == get_value(status_types[k].type, status_format, payload)
         IN  IF val.kind = "KeyError"
             THEN [res |-> "KeyError", status_values |-> <<>>]
             ELSE status_loop(k + 1, status_format, payload,
                              IF val = None THEN status_values
                              ELSE (status_types[k].name :> val) @@ status_values)

\* the inputs of this model: every format of up to MaxFormatLen of the
\* type-ids 0c, 51, 32, 09, 0a, and every payload of up to MaxFormatLen
\* slots 00 01 / 00 06 / 7F FF, whole or with its last byte missing
MaxFormatLen == 3
SampleTypeIds == {12, 81, 50, 9, 10}
SampleFormats == UNION {[1..n -> SampleTypeIds] : n \in 0..MaxFormatLen}
SampleSlots == {<<0, 1>>, <<0, 6>>, <<127, 255>>}
SampleStatusPayloads ==
    {Take(Join(s), 2 * Len(s) - c) :
        s \in UNION {[1..n -> SampleSlots] : n \in 0..MaxFormatLen}, c \in {0, 1}}

DecodeInit ==
    /\ SessionInit /\ StatusParked /\ FinderParked /\ CodecParked /\ MonitorParked
    /\ \E f \in SampleFormats, p \in SampleStatusPayloads :
          decode = [pc |-> "input", format |-> f, payload |-> p,
                    values |-> <<>>, res |-> "none", status_values |-> <<>>]

\* get_value of every registered status type on the format and the payload
DGetValue ==
    /\ decode.pc = "input"
    /\ decode' = [decode EXCEPT
                    !.pc = "values",
                    !.values = [name \in FieldNames |->
                                  get_value(TypeOf(name), decode.format, decode.payload)]]
    /\ OffDecode

\* Inverter.status from the reply on: the loop over the registry
DStatus ==
    /\ decode.pc = "values"
    /\ LET r == status_loop(1, decode.format, decode.payload, <<>>)
       IN  decode' = [decode EXCEPT
                        !.pc = "status", !.res = r.res,
                        !.status_values = r.status_values]
    /\ OffDecode

DecodeNext ==
    \/ DGetValue
    \/ DStatus

DecodeSpec == DecodeInit /\ [][DecodeNext]_vars

(* ------------------------ the monitor of SolarRiver_get ---------------- *)

OffMonitor == UNCHANGED <<sessionvars, status, finder, codec, decode>>

MaxPolls == 2
MaxStarts == 2

MonitorInit ==
    /\ SessionInit /\ StatusParked /\ FinderParked /\ CodecParked /\ DecodeParked
    /\ MonitorParked

\* while True: try: Start(); the frame of the Start() before, and the session
\* it held, are gone
MStart ==
    /\ monitor.pc = "loop"
    /\ monitor' = [monitor EXCEPT
                     !.pc = "open", !.sock = "none", !.raised = "none",
                     !.polls = 0, !.starts = Inc(monitor.starts, MaxStarts)]
    /\ OffMonitor

\* with InverterFinder(interface_ip='') as finder: __enter__ calls
\* open_with_retries, which returns with the listener bound or raises OSError
\* with listen_sock None; the exception leaves Start() for the except of the
\* outer loop
MOpen ==
    /\ monitor.pc = "open"
    /\ \/ monitor' = [monitor EXCEPT !.pc = "find", !.listen = "listening"]
       \/ monitor' = [monitor EXCEPT !.pc = "loop", !.last = "OSError"]
    /\ OffMonitor

\* inverter = KeepAliveInverter(*finder.find_inverter()): the constructor
\* starts the keep-alive worker; InverterNotFoundError is caught and Start()
\* returns; any other exception leaves the with block as it is
MFind ==
    /\ monitor.pc = "find"
    /\ \/ monitor' = [monitor EXCEPT !.pc = "exit_finder", !.sock = "open", !.ka = TRUE]
       \/ monitor' = [monitor EXCEPT !.pc = "exit_finder", !.raised = "InverterNotFoundError"]
       \/ monitor' = [monitor EXCEPT !.pc = "exit_finder", !.raised = "OSError"]
    /\ OffMonitor

\* Fault variant of MExitFinder: the with block is left without close().
MExitFinderKeepsListener ==
    /\ monitor.pc = "exit_finder"
    /\ IF monitor.raised = "none"
       THEN monitor' = [monitor EXCEPT !.pc = "poll"]
       ELSE monitor' = [monitor EXCEPT
                          !.pc = "loop", !.raised = "none",
                          !.last = monitor.raised]
    /\ OffMonitor

\* the with block of the finder is left, by its end, by the return or by an
\* exception: InverterFinder.__exit__ closes the listener
MExitFinder ==
    /\ monitor.pc = "exit_finder"
    /\ IF monitor.raised = "none"
       THEN monitor' = [monitor EXCEPT !.pc = "poll", !.listen = "None"]
       ELSE monitor' = [monitor EXCEPT
                          !.pc = "loop", !.listen = "None", !.raised = "none",
                          !.last = monitor.raised]
    /\ OffMonitor

\* status_dict = inverter.status(), which returns or raises
MStatus ==
    /\ monitor.pc = "poll"
    /\ LET called == [monitor EXCEPT !.polls = Inc(monitor.polls, MaxPolls)]
       IN  \/ monitor' = [called EXCEPT !.pc = "render"]
           \/ monitor' = [called EXCEPT !.pc = "exit_inverter", !.raised = "status"]
    /\ OffMonitor

\* the output of the sample and the write to the database: status_dict[...]
\* raises KeyError for a field the sample does not hold
MRender ==
    /\ monitor.pc = "render"
    /\ \/ monitor' = [monitor EXCEPT !.pc = "sleep"]
       \/ monitor' = [monitor EXCEPT !.pc = "exit_inverter", !.raised = "KeyError"]
    /\ OffMonitor

\* t += interval; sleep(max(t - time(), 0))
MSleep ==
    /\ monitor.pc = "sleep"
    /\ monitor' = [monitor EXCEPT !.pc = "poll"]
    /\ OffMonitor

\* the with block of the inverter is left by an exception: __exit__ calls
\* KeepAliveInverter.disconnect, which stops the keep-alive worker, then
\* shuts down and closes the socket, or raises the OSError of a shutdown
\* whose errno is not one of AlreadyClosedErrnos and leaves the socket to the
\* release of the object ("abandoned"); the exception reaches the outer loop
MExitInverter ==
    /\ monitor.pc = "exit_inverter"
    /\ \E e \in ShutdownErrnos :
          monitor' = [monitor EXCEPT
                        !.pc = "loop", !.ka = FALSE, !.raised = "none",
                        !.sock = IF e = 0 \/ e \in AlreadyClosedErrnos
                                 THEN "closed" ELSE "abandoned",
                        !.last = IF e = 0 \/ e \in AlreadyClosedErrnos
                                 THEN monitor.raised ELSE "OSError in disconnect"]
    /\ OffMonitor

MonitorNext ==
    \/ MStart
    \/ MOpen
    \/ MFind
    \/ MExitFinder
    \/ MStatus
    \/ MRender
    \/ MSleep
    \/ MExitInverter

MonitorSpec == MonitorInit /\ [][MonitorNext]_vars

\* the one thread of the monitor goes on: open_with_retries, find_inverter,
\* status() and sleep all end, each bounded by a count or by a timeout
MonitorFairness == WF_vars(MonitorNext)

FairMonitorSpec == MonitorSpec /\ MonitorFairness

(* ------------------------------- claims -------------------------------- *)

\* C1: at every instant at most one of the keep-alive worker and the user
\* thread is inside a socket send or receive, and no frame is ever begun
\* inside another frame (the socket carries whole frames only).
C1_SocketMutualExclusion ==
    /\ \A w \in Workers : ~(UserInSocket /\ WorkerInSocket(w))
    /\ \A v, w \in Workers : v # w => ~(WorkerInSocket(v) /\ WorkerInSocket(w))
    /\ ~torn

\* C1 witness: the user's send() waits in join() while the worker is inside
\* its keep-alive exchange on the socket.
C1_Witness ==
    /\ uop = "send" /\ upc = "join"
    /\ \E w \in Workers : WorkerInSocket(w)

C4_EofEndsRequest ==
    [][(uop = "request" /\ ueof)
          => /\ ~(upc' = "idle" /\ ures' = "ok")
             /\ upc' # "reading"]_vars

\* C5 (as claimed): once the session is closed (disconnect() returned, or a
\* user request failed with an I/O error) no later request() writes a frame
\* to the socket or reads from the socket.
C5_ClosedIsPermanent ==
    [][(closedg /\ uop = "request")
          => /\ ~(upc = "flush" /\ upc' = "start")
             /\ ~(upc = "reading" /\ upc' = "start")]_vars

\* C6 (as claimed): a send / receive / request of the user that finds the
\* worker dead of a failed keep-alive exchange raises, and does no socket I/O.
C6_KeepAliveFailureSurfaces ==
    [][(/\ uop \in {"send", "receive", "request"}
        /\ upc = "join" /\ wpc[ka_thread] = "crashed" /\ upc' # upc)
          => (upc' = "idle" /\ ures' \notin {"none", "ok"})]_vars

\* C7: a keep-alive frame is written, and its reply read, only when a whole
\* keep-alive period has passed since the user's last socket operation ended:
\* each user operation restarts the worker's wait from zero, so a worker never
\* has waited longer than the user has been idle.
C7_KeepAliveSuppressed ==
    /\ \A w \in Workers : WorkerInSocket(w) => ugap = KeepAliveTicks
    /\ \A w \in Workers : wpc[w] = "wait" => timer[w] <= ugap

\* C7 witness: a user operation stops the worker one tick before its timeout.
C7_Witness ==
    /\ upc = "join" /\ uop \in {"send", "receive", "request"}
    /\ ka_thread # 0 /\ wpc[ka_thread] = "wait"
    /\ timer[ka_thread] = KeepAliveTicks - 1 /\ ugap = KeepAliveTicks - 1
    /\ lastOut.by = "user"

\* C8: a worker waiting on an open session, unless a user operation sets the
\* stop event first, comes to write a keep-alive frame, and not before a whole
\* keep-alive period of waiting; the frame written is 01 09 02; the write is
\* followed by a receive, and the receive takes exactly one frame off the
\* stream (none at end of stream) and returns the worker to a fresh wait,
\* unless the exchange fails.
C8_KeepAliveOnIdle ==
    /\ (\E w \in Workers : wpc[w] = "wait" /\ ~ka_stop /\ sock = "open")
          ~> (ka_stop \/ \E w \in Workers : WorkerWriting(w))
    /\ (\E w \in Workers : WorkerInSocket(w))
          ~> (\E w \in Workers : (wpc[w] = "wait" /\ timer[w] = 0) \/ wpc[w] = "crashed")
    /\ [][\A w \in Workers :
            /\ (wpc[w] = "wait" /\ WorkerWriting(w)') => timer[w] = KeepAliveTicks
            /\ (WorkerWriting(w) /\ wpc'[w] # wpc[w])
                  => \/ /\ WorkerReading(w)'
                        /\ lastOut' = [by |-> "worker", id |-> KeepAliveId]
                     \/ wpc'[w] = "crashed"
            /\ (WorkerReading(w) /\ wpc'[w] = "wait")
                  => \/ inq # <<>> /\ inq' = Tail(inq)
                     \/ inq = <<>> /\ peer # "up" /\ inq' = inq
            /\ (wpc'[w] # wpc[w] /\ ~WorkerReading(w)) => inq' = inq
         ]_vars

\* C8 witness: a worker is back in a fresh wait after a keep-alive exchange
\* that followed an idle period, with no user call made so far.
C8_Witness ==
    /\ uop = "none" /\ lastOut = [by |-> "worker", id |-> KeepAliveId]
    /\ ka_thread # 0 /\ wpc[ka_thread] = "wait" /\ timer[ka_thread] = 0
    /\ peer = "up"

\* C9 (as claimed): stop_keep_alive() called while no worker thread is
\* running changes nothing and returns; start_keep_alive() called while a
\* worker exists raises RuntimeError and leaves the handle, the event and every
\* worker thread as they were.
C9_StopStartGuards ==
    [][/\ (/\ upc = "stop" /\ uop = "stop_keep_alive"
           /\ \A w \in Workers : ~Alive(w)
           /\ upc' # upc)
            => (upc' = "idle" /\ ures' = "ok" /\ UNCHANGED <<kavars, sockvars>>)
       /\ (upc = "start" /\ ka_thread # 0 /\ upc' # upc)
            => (upc' = "idle" /\ ures' = "RuntimeError" /\ UNCHANGED <<kavars, sockvars>>)
      ]_vars

\* C10: while disconnect() shuts down and closes the socket no worker thread
\* exists, none exists when it returns, and no worker is inside a socket send
\* or receive once the socket has been shut down.
C10_WorkerStoppedBeforeClose ==
    /\ upc \in {"shutdown", "close"}
          => (ka_thread = 0 /\ \A w \in Workers : wpc[w] = "none")
    /\ (uop = "disconnect" /\ upc = "idle")
          => (ka_thread = 0 /\ \A w \in Workers : wpc[w] = "none")
    /\ sock # "open" => \A w \in Workers : ~WorkerInSocket(w)

\* C10 witness: disconnect() has returned on a session whose last frame on
\* the socket was a keep-alive frame of the worker.
C10_Witness ==
    /\ uop = "disconnect" /\ upc = "idle" /\ ures = "ok" /\ sock = "closed"
    /\ lastOut.by = "worker"

\* C16: disconnect() shuts the socket down before it closes it; a shutdown
\* that fails with errno 9, 107 or 10038 is swallowed and the close still
\* happens; a shutdown that fails with any other errno raises the OSError to
\* the caller; the socket is closed by the close step only, which ends the
\* call normally.
C16_DisconnectErrnos ==
    [][/\ (upc = "shutdown" /\ upc' # upc)
            => IF uerrno' = 0
               THEN upc' = "close" /\ sock' = "shut"
               ELSE IF uerrno' \in {9, 107, 10038}
               THEN upc' = "close" /\ sock' = sock
               ELSE upc' = "idle" /\ ures' = "OSError" /\ sock' = sock
       /\ (upc = "close" /\ upc' # upc)
            => (sock' = "closed" /\ upc' = "idle" /\ ures' = "ok")
       /\ (upc' = "close" /\ upc # "close") => upc = "shutdown"
       /\ sock' # sock => upc \in {"shutdown", "close"}
      ]_vars

\* C16 witness: a shutdown that failed with an already-closed errno has been
\* swallowed and disconnect() is about to close the socket.
C16_Witness ==
    /\ uop = "disconnect" /\ upc = "close" /\ uerrno \in {9, 107, 10038}

\* C11 (as claimed): once a format request has been answered, whether it was
\* made through status_format() or through status(), no status() call sends a
\* format request again, whatever format the inverter answered with; and a
\* status request is sent only after a format request has been answered.
C11_FormatFetchedOnce ==
    [][/\ (status.fetched /\ status.op = "status" /\ status.pc = "fmt_send")
            => status'.pc # "fmt_recv"
       /\ (status.pc = "st_send" /\ status'.pc = "st_recv") => status.fetched
      ]_vars

\* C12: a find_inverter(advertisements = n) during which no inverter connects
\* comes to an end; it ends with InverterNotFoundError, and has then sent
\* exactly n advertisements, each followed by an accept attempt that timed out
\* (none of either for n = 0).
C12_NotFoundAfterAllAdverts ==
    /\ [](finder.op = "find_inverter" /\ finder.pc = "accept"
            => finder.sent = finder.timeouts + 1)
    /\ []((/\ finder.op = "find_inverter" /\ finder.pc = "idle"
           /\ finder.res # "AttributeError" /\ ~finder.accepted)
            => /\ finder.res = "InverterNotFoundError"
               /\ finder.sent = finder.adv /\ finder.timeouts = finder.adv)
    /\ (finder.op = "find_inverter" /\ finder.pc # "idle")
          ~> (finder.op = "find_inverter" /\ finder.pc = "idle")

\* C12 witness: find_inverter(advertisements = 2) has raised
\* InverterNotFoundError after two advertisements and two timeouts.
C12_Witness ==
    /\ finder.op = "find_inverter" /\ finder.pc = "idle" /\ finder.res = "InverterNotFoundError"
    /\ finder.adv = 2 /\ finder.sent = 2 /\ finder.timeouts = 2

\* C13: every accept attempt of find_inverter comes right after an
\* advertisement of its own, and when the k-th attempt succeeds the call has
\* returned the connection, k advertisements have been sent (k within
\* 1..advertisements), and neither a further advertisement nor
\* InverterNotFoundError follows.
C13_ReturnsOnAccept ==
    /\ (finder.op = "find_inverter" /\ finder.pc = "accept")
          => (finder.sent = finder.timeouts + 1 /\ finder.sent = finder.i)
    /\ (finder.op = "find_inverter" /\ finder.accepted)
          => /\ finder.pc = "idle" /\ finder.res = "ok"
             /\ finder.sent = finder.timeouts + 1
             /\ 1 <= finder.sent /\ finder.sent <= finder.adv

\* C13 witness: the second accept attempt of a find_inverter succeeded.
C13_Witness ==
    /\ finder.op = "find_inverter" /\ finder.accepted /\ finder.timeouts = 1 /\ finder.sent = 2

\* C14 (as claimed): an open_with_retries(n, period) all of whose open()
\* attempts fail with errno 98 or 10048 raises that error after n + 1
\* attempts with a sleep between consecutive attempts (n sleeps); one that
\* returns has the listener open.
C14_RetriesThenPropagates ==
    /\ (/\ finder.op = "open_with_retries" /\ finder.pc = "idle" /\ finder.res = "OSError"
        /\ finder.errno \in {98, 10048})
          => (finder.opens = finder.retries + 1 /\ finder.sleeps = finder.retries)
    /\ (finder.op = "open_with_retries" /\ finder.pc = "idle" /\ finder.res = "ok")
          => finder.listen = "listening"

C17_FrameRoundTrip ==
    /\ codec.pc = "built" => codec.built.kind = "ok"
    /\ (codec.pc = "read" /\ Take(codec.stream, Len(codec.built.bytes)) = codec.built.bytes)
          => /\ codec.out = [kind |-> "ok", id |-> codec.id, payload |-> codec.payload]
             /\ codec.rest = Drop(codec.stream, Len(codec.built.bytes))

\* C18 (as claimed): construct_message returns, for every identifier of three
\* bytes and every payload of up to 4096 bytes, the bytes 55 AA, the
\* identifier, the payload length in two bytes big-endian, the payload, and
\* two bytes that read big-endian are the sum of all bytes before them
\* modulo 2^16.
C18_ChecksumIsLow16Bits ==
    codec.pc = "built"
      => /\ codec.built.kind = "ok"
         /\ LET n == Len(codec.payload)
                body == <<85, 170>> \o codec.id \o <<n \div 256, n % 256>> \o codec.payload
            IN  /\ Len(codec.built.bytes) = Len(body) + 2
                /\ Take(codec.built.bytes, Len(body)) = body
                /\ 256 * codec.built.bytes[Len(body) + 1] + codec.built.bytes[Len(body) + 2]
                      = Sum(body) % 65536

\* C19 (as claimed): read_message applied to a stream whose first two bytes
\* are not 55 AA raises, and returns no identifier and payload.
C19_BadStartRejected ==
    (codec.pc = "read" /\ Take(codec.stream, 2) # <<85, 170>>) => codec.out.kind = "ValueError"

\* C20 (as claimed): read_message applied to a frame that is well formed but
\* for its last two bytes, which differ from the checksum of the bytes before
\* them, raises, and returns no identifier and payload.
C20_BadChecksumRejected ==
    LET n == Len(codec.built.bytes) - 2
    IN  (/\ codec.pc = "read"
         /\ Take(codec.stream, n) = Take(codec.built.bytes, n)
         /\ SubSeq(codec.stream, n + 1, n + 2) # calculate_checksum(Take(codec.stream, n)).bytes)
          => codec.out.kind = "ValueError"

\* C21: read_message raises ValueError whenever the length L of bytes 6..7 of
\* the frame is above 4096, and then has read neither payload nor checksum
\* (the stream stands right after the length); for every L in 0..4096 it
\* passes and reads the next L bytes as the payload (all L of them when the
\* stream holds them), then the two bytes of the checksum.
C21_LengthAbove4096Rejected ==
    codec.pc = "read" =>
        LET L == FromBytes(SubSeq(codec.stream, 6, 7))
            body == Drop(codec.stream, 7)
        IN  IF L > 4096
            THEN codec.out.kind = "ValueError" /\ codec.rest = body
            ELSE /\ codec.out.kind = "ok"
                 /\ codec.out.payload = Take(body, L)
                 /\ (Len(body) >= L => Len(codec.out.payload) = L)
                 /\ codec.rest = Drop(body, L + 2)

\* a frame of 4096 bytes of payload whose length reads 4097 was turned down
C21_Witness ==
    /\ codec.pc = "read" /\ codec.out.kind = "ValueError"
    /\ FromBytes(SubSeq(codec.stream, 6, 7)) = 4097
    /\ Len(codec.payload) = 4096
    /\ Len(codec.rest) >= 4096

\* C22 (as claimed): get_value of every field defined by a fixed list of
\* type-ids (the Int and Decimal fields and operation_mode) is None when one
\* of its type-ids does not occur in the format, and status() then returns a
\* sample without that field.
C22_MissingTypeIdGivesNone ==
    LET fixed == {name \in FieldNames :
                    TypeOf(name).cls \in {"Int", "Decimal", "OperationMode"}}
        missing(name) == \E k \in 1..Len(TypeOf(name).type_ids) :
                            find(decode.format, TypeOf(name).type_ids[k]) = -1
    IN  /\ decode.pc \in {"values", "status"} =>
              \A name \in fixed : missing(name) => decode.values[name] = None
        /\ decode.pc = "status" =>
              \A name \in fixed :
                 missing(name) => /\ decode.res = "ok"
                                  /\ name \notin DOMAIN decode.status_values

\* C23: a gated type returns what its inner type returns when the presence
\* of its gate id in the format is the presence it asks for, and None
\* otherwise; so with 0x51 in the format each single-phase grid field is None
\* and its R-phase field has the inner Decimal's value, without 0x51 the
\* reverse, and no sample status() returns holds both fields of a pair.
C23_ThreePhaseGating ==
    LET gated == {name \in FieldNames : TypeOf(name).cls = "IfPresent"}
        inner(name) == DecimalGetValue(TypeOf(name).status_type,
                                       decode.format, decode.payload)
        present(id) == \E i \in 1..Len(decode.format) : decode.format[i] = id
        pairs == {<<"grid_voltage", "grid_voltage_r_phase">>,
                  <<"grid_current", "grid_current_r_phase">>,
                  <<"grid_frequency", "grid_frequency_r_phase">>}
        sample == decode.status_values
    IN  /\ decode.pc \in {"values", "status"} =>
              /\ \A name \in gated :
                    decode.values[name] =
                        IF present(TypeOf(name).type_ids[1]) = TypeOf(name).presence
                        THEN inner(name) ELSE None
              /\ \A p \in pairs :
                    IF present(81)
                    THEN decode.values[p[1]] = None /\ decode.values[p[2]] = inner(p[2])
                    ELSE decode.values[p[2]] = None /\ decode.values[p[1]] = inner(p[1])
        /\ (decode.pc = "status" /\ decode.res = "ok") =>
              \A p \in pairs :
                 /\ ~(p[1] \in DOMAIN sample /\ p[2] \in DOMAIN sample)
                 /\ p[1] \in DOMAIN sample => ~present(81) /\ sample[p[1]] = inner(p[1])
                 /\ p[2] \in DOMAIN sample => present(81) /\ sample[p[2]] = inner(p[2])

\* status() returned a sample of a three-phase format, 0x51 before 0x32 and
\* the payload ending inside the slot of 0x51: the sample holds the R-phase
\* voltage and no single-phase voltage
C23_Witness ==
    /\ decode.pc = "status" /\ decode.res = "ok"
    /\ find(decode.format, 81) >= 0 /\ find(decode.format, 50) >= 0
    /\ "grid_voltage_r_phase" \in DOMAIN decode.status_values
    /\ "grid_voltage" \notin DOMAIN decode.status_values
    /\ Len(decode.payload) <= 2 * find(decode.format, 81)

\* C24 (as claimed): with 0x0c in the format, first at index i, and n the
\* unsigned big-endian integer of payload[2i:2i+2], operation_mode is Wait,
\* Normal, Fault, Permanent fault, Check, PV power off for n = 0..5, and for
\* every other n get_value fails with the error UnknownOperationMode(n).
C24_OperationModeDecoded ==
    (decode.pc \in {"values", "status"} /\ find(decode.format, 12) >= 0) =>
        LET i == find(decode.format, 12)
            n == FromBytes(Take(Drop(decode.payload, 2 * i), 2))
            names == <<"Wait", "Normal", "Fault", "Permanent fault", "Check",
                       "PV power off">>
            v == decode.values["operation_mode"]
        IN  IF n \in 0..5
            THEN v = StrVal(names[n + 1])
            ELSE v.kind = "UnknownOperationMode" /\ v.n = n

\* C25 (as claimed): when the payload is not twice as long as the format,
\* status() still returns a sample, and a field with a slot [2i, 2i+2) that
\* lies partly or wholly outside the payload is None and not in the sample.
C25_MissingBytesGiveNone ==
    LET leaf(t) == IF t.cls = "IfPresent" THEN t.status_type ELSE t
        read(t) ==
            /\ t.cls # "OneOf"
            /\ t.cls = "IfPresent" =>
                  t.presence = (find(decode.format, t.type_ids[1]) >= 0)
            /\ \A k \in 1..Len(leaf(t).type_ids) :
                  find(decode.format, leaf(t).type_ids[k]) >= 0
        outside(t) ==
            \E k \in 1..Len(leaf(t).type_ids) :
               2 * find(decode.format, leaf(t).type_ids[k]) + 2 > Len(decode.payload)
        short == {name \in FieldNames : read(TypeOf(name)) /\ outside(TypeOf(name))}
    IN  Len(decode.payload) # 2 * Len(decode.format) =>
          /\ decode.pc \in {"values", "status"} =>
                \A name \in short : decode.values[name] = None
          /\ decode.pc = "status" =>
                /\ decode.res = "ok"
                /\ \A name \in short : name \notin DOMAIN decode.status_values

\* C27: at most one keep-alive worker thread of the session is alive at any
\* time, and a worker thread is started only by start_keep_alive, with the
\* handle None and every earlier worker signalled, ended and joined.
C27_AtMostOneWorker ==
    /\ [](Cardinality({w \in Workers : Alive(w)}) <= 1)
    /\ [][\A w \in Workers :
            (wpc[w] = "none" /\ wpc'[w] # "none") =>
                /\ upc = "start" /\ ka_thread = 0 /\ ka_thread' = w
                /\ \A v \in Workers : wpc[v] = "none"
                /\ wpc'[w] = "wait"]_vars

\* a send has returned and the worker its start_keep_alive started waits,
\* after the worker of the constructor was joined
C27_Witness ==
    /\ uop = "send" /\ upc = "idle" /\ ures = "ok"
    /\ ka_thread # 0 /\ wpc[ka_thread] = "wait"
    /\ Cardinality({w \in Workers : Alive(w)}) = 1

\* C28 (as claimed): after a user send / receive / request has raised, the
\* worker stays stopped, and so writes no keep-alive frame, until a later
\* user send or receive: no worker runs before the user calls send, receive
\* or request again, and a worker is started again only by such a call.
C28_StoppedUntilNextSendReceive ==
    /\ [](ufailed => (ka_thread = 0 /\ \A w \in Workers : ~Alive(w)))
    /\ [][(ufailed /\ ~ufailed') => uop' \in IOOps]_vars

\* C28 (amended): after a user send / receive / request has raised, the
\* worker stays stopped and no keep-alive frame is written until
\* start_keep_alive runs again: called by the user, or at the end of a later
\* user send or receive whose socket I/O completed.
C28_StoppedUntilNextStart ==
    /\ [](ufailed => (ka_thread = 0 /\ \A w \in Workers : ~Alive(w)))
    /\ [][/\ IOFails => (ufailed' /\ ka_thread' = 0)
          /\ ufailed => lastOut' = lastOut
          /\ (ufailed /\ ~ufailed') =>
                \/ upc = "idle" /\ upc' = "stop" /\ uop' \in IOOps
                \/ /\ upc = "start" /\ uop = "start_keep_alive"
                   /\ ka_thread' # 0 /\ wpc'[ka_thread'] = "wait"
          /\ \A w \in Workers :
                (wpc[w] = "none" /\ wpc'[w] = "wait") =>
                    (upc = "start" /\ uop \in IOOps \cup {"start_keep_alive"})
          /\ (upc' = "start" /\ upc # "start" /\ uop' \in IOOps) =>
                (upc \in {"flush", "reading"} /\ ures' = ures)]_vars

\* a send failed on the broken pipe, and a keep-alive period has gone by
\* since with no worker
C28_Witness ==
    /\ ufailed /\ uop = "send" /\ upc = "idle" /\ ures = "BrokenPipeError"
    /\ ugap = KeepAliveTicks
    /\ \A w \in Workers : ~Alive(w)

====
